---- MODULE Spec2Model ----
(***************************************************************************)
(* A model of the recipe REST backend: the Recipe and User collections,    *)
(* the eight handlers of recipe.controller.js, each cut into steps at its  *)
(* awaits on the store and on the AI Generation Client, and the pure       *)
(* helpers normalizeCategory and parseNutrition.                           *)
(*                                                                         *)
(* JavaScript strings are sequences of one-character strings, so that the  *)
(* character-level helpers can be computed as the code computes them.      *)
(* A JavaScript value is a record [kind, s, a, n]: kind names its type,    *)
(* s holds a string's characters, a an array's elements (strings), n the   *)
(* numbers of a nutritionalInfo object in hundredths.                      *)
(***************************************************************************)
EXTENDS Integers, Sequences, FiniteSets, TLC

--------------------------------------------------------------------------
(* Bounds of the model *)

\* the number of requests the server accepts in one behaviour
MaxRequests == 3
\* the same, for the behaviours of saveRecipe and deleteRecipe alone
MaxSaves == 4
\* the same, for the behaviours of the two handlers that call the AI client
MaxAiRequests == 2
\* the longest category string drawn exhaustively for normalizeCategory
MaxLen == 4

--------------------------------------------------------------------------
(* JavaScript values *)

Null == [kind |-> "null", s |-> <<>>, a |-> <<>>, n |-> <<>>]
Str(cs) == [kind |-> "string", s |-> cs, a |-> <<>>, n |-> <<>>]
Arr(xs) == [kind |-> "array", s |-> <<>>, a |-> xs, n |-> <<>>]
Obj(ns) == [kind |-> "object", s |-> <<>>, a |-> <<>>, n |-> ns]
\* a number, held as the characters value.toString() gives
Num(cs) == [kind |-> "number", s |-> cs, a |-> <<>>, n |-> <<>>]
\* the value a throwing call is modelled to return
Throw == [kind |-> "throw", s |-> <<>>, a |-> <<>>, n |-> <<>>]

\* JavaScript truthiness, as `if (x)` and `!x` test it: undefined, null, the
\* empty string and 0 are falsy; every array and object is truthy
Truthy(v) ==
  ~(\/ v.kind = "null"
    \/ (v.kind = "string" /\ v.s = <<>>)
    \/ (v.kind = "number" /\ v.s = <<"0">>))

UpperChars == <<"A","B","C","D","E","F","G","H","I","J","K","L","M",
                "N","O","P","Q","R","S","T","U","V","W","X","Y","Z">>
LowerChars == <<"a","b","c","d","e","f","g","h","i","j","k","l","m",
                "n","o","p","q","r","s","t","u","v","w","x","y","z">>
DigitChars == <<"0","1","2","3","4","5","6","7","8","9">>

IsLower(c) == \E i \in DOMAIN LowerChars : LowerChars[i] = c
IsDigit(c) == \E i \in DOMAIN DigitChars : DigitChars[i] = c
DigitVal(c) == (CHOOSE i \in DOMAIN DigitChars : DigitChars[i] = c) - 1

\* String.prototype.toLowerCase, one character
ToLowerChar(c) ==
  IF \E i \in DOMAIN UpperChars : UpperChars[i] = c
    THEN LowerChars[CHOOSE i \in DOMAIN UpperChars : UpperChars[i] = c]
    ELSE c

ToLowerCase(cs) == [i \in DOMAIN cs |-> ToLowerChar(cs[i])]

\* a variant that, as the comment above the statement puts it, drops the
\* non-alphanumeric characters only
RECURSIVE StripNonAlphanumeric(_)
StripNonAlphanumeric(cs) ==
  IF cs = <<>> THEN <<>>
  ELSE IF IsLower(Head(cs)) \/ IsDigit(Head(cs))
    THEN <<Head(cs)>> \o StripNonAlphanumeric(Tail(cs))
  ELSE StripNonAlphanumeric(Tail(cs))

\* str.replace(/[^a-z]/g, ""): drop every character outside a-z
RECURSIVE StripNonLower(_)
StripNonLower(cs) ==
  IF cs = <<>> THEN <<>>
  ELSE IF IsLower(Head(cs)) THEN <<Head(cs)>> \o StripNonLower(Tail(cs))
  ELSE StripNonLower(Tail(cs))

Veg == <<"v","e","g">>
Vegetarian == <<"v","e","g","e","t","a","r","i","a","n">>
NonVeg == <<"n","o","n","v","e","g">>
NonVegetarianKey == <<"n","o","n","v","e","g","e","t","a","r","i","a","n">>
NonVegetarian == <<"n","o","n","-","v","e","g","e","t","a","r","i","a","n">>
Vegan == <<"v","e","g","a","n">>
Spicy == <<"s","p","i","c","y">>
Other == <<"o","t","h","e","r">>

\* the string form of normalizeCategory, for a string argument
NormalizeString(cs) ==
  LET cleaned == StripNonLower(ToLowerCase(cs))
  IN IF cleaned \in {Veg, Vegetarian} THEN Vegetarian
     ELSE IF cleaned \in {NonVeg, NonVegetarianKey} THEN NonVegetarian
     ELSE IF cleaned \in {Vegan} THEN Vegan
     ELSE IF cleaned \in {Spicy} THEN Spicy
     ELSE Other

\* normalizeCategory(cat): a falsy cat gives "other"; an array or an object
\* has no toLowerCase method, so the call throws a TypeError
normalizeCategory(cat) ==
  IF ~Truthy(cat) THEN Str(Other)
  ELSE IF cat.kind # "string" THEN Throw
  ELSE Str(NormalizeString(cat.s))

--------------------------------------------------------------------------
(* parseNutrition, in hundredths *)

\* str.replace(/[^\d.]/g, ""): keep the digits and the dots
RECURSIVE StripNonNumeric(_)
StripNonNumeric(cs) ==
  IF cs = <<>> THEN <<>>
  ELSE IF IsDigit(Head(cs)) \/ Head(cs) = "." 
    THEN <<Head(cs)>> \o StripNonNumeric(Tail(cs))
  ELSE StripNonNumeric(Tail(cs))

\* the longest prefix of cs made of digits
RECURSIVE LeadingDigits(_)
LeadingDigits(cs) ==
  IF cs = <<>> \/ ~IsDigit(Head(cs)) THEN <<>>
  ELSE <<Head(cs)>> \o LeadingDigits(Tail(cs))

RECURSIVE DigitsValue(_)
DigitsValue(ds) ==
  IF ds = <<>> THEN 0
  ELSE DigitsValue(SubSeq(ds, 1, Len(ds) - 1)) * 10 + DigitVal(ds[Len(ds)])

DigitAt(ds, i) == IF i <= Len(ds) THEN DigitVal(ds[i]) ELSE 0

\* parseFloat of a string of digits and dots, then toFixed(2): the integer
\* part, an optional dot and fraction; NaN (here -1) when neither has a digit.
\* The result is in hundredths, the third decimal rounding half up.
ParseFloatFixed(cs) ==
  LET ip == LeadingDigits(cs)
      rest == SubSeq(cs, Len(ip) + 1, Len(cs))
      fp == IF rest # <<>> /\ Head(rest) = "." THEN LeadingDigits(Tail(rest))
            ELSE <<>>
  IN IF ip = <<>> /\ fp = <<>> THEN -1
     ELSE DigitsValue(ip) * 100 + DigitAt(fp, 1) * 10 + DigitAt(fp, 2)
          + (IF DigitAt(fp, 3) >= 5 THEN 1 ELSE 0)

parseNutrition(value) ==
  IF ~Truthy(value) THEN 0
  ELSE LET num == ParseFloatFixed(StripNonNumeric(value.s))
       IN IF num = -1 THEN 0 ELSE num

--------------------------------------------------------------------------
(* Recipe documents *)

Fields == <<"title", "description", "ingredients", "instructions",
            "portionSize", "category", "difficulty", "nutritionalInfo", "image">>
FieldSet == {Fields[i] : i \in DOMAIN Fields}

Easy == <<"e","a","s","y">>
Medium == <<"m","e","d","i","u","m">>
Hard == <<"h","a","r","d">>
\* the schema's default image (a URL, abbreviated)
DefaultImage == Str(<<"h","t","t","p","s",":","/","/","r","e","s">>)

\* what `new Recipe(given)` holds: the given paths, and the schema's defaults
\* for image, ratings, averageRating, savedBy, tags and cuisine
NewRecipe(given) ==
  [title |-> given.title, description |-> given.description,
   ingredients |-> given.ingredients, instructions |-> given.instructions,
   portionSize |-> given.portionSize, category |-> given.category,
   difficulty |-> given.difficulty, nutritionalInfo |-> given.nutritionalInfo,
   image |-> DefaultImage, ratings |-> <<>>, averageRating |-> 0,
   savedBy |-> <<>>, tags |-> <<>>, cuisine |-> Null]

\* a [String] path given a single string holds the one-element array
CastStringArray(v) == IF v.kind = "string" THEN Arr(<<v.s>>) ELSE v

\* the schema's validators: title, portionSize and difficulty are required
\* strings, the four array paths are required, difficulty is one of the enum
Validates(doc) ==
  /\ doc.title.kind = "string" /\ doc.title.s # <<>>
  /\ doc.portionSize.kind = "string" /\ doc.portionSize.s # <<>>
  /\ doc.difficulty.kind = "string" /\ doc.difficulty.s \in {Easy, Medium, Hard}
  /\ doc.description.kind = "array"
  /\ doc.ingredients.kind = "array"
  /\ doc.instructions.kind = "array"
  /\ doc.category.kind = "array"

BlankDoc ==
  NewRecipe([title |-> Null, description |-> Null, ingredients |-> Null,
             instructions |-> Null, portionSize |-> Null, category |-> Null,
             difficulty |-> Null, nutritionalInfo |-> Null])

Contains(seq, x) == \E i \in DOMAIN seq : seq[i] = x
Count(seq, x) == Cardinality({i \in DOMAIN seq : seq[i] = x})

--------------------------------------------------------------------------
(* State *)

Users == {"u1", "u2"}
\* the requests the server can have in flight at once
Procs == {"p1", "p2"}

VARIABLES
  apiKey,     \* whether process.env.GOOGLE_API_KEY is set
  recipes,    \* the Recipe collection: id -> document, for the ids in it
  users,      \* the User collection: user -> savedRecipes
  nextId,     \* the number of Recipe documents inserted so far
  procs,      \* the requests in flight: handler, position and locals
  budget,     \* the number of requests the server still accepts
  deleted,    \* history: the ids deleteRecipe has removed
  last,       \* history: the request whose response was the latest step
  catIn,      \* an argument of normalizeCategory
  catOut      \* its result

vars == <<apiKey, recipes, users, nextId, procs, budget, deleted, last,
          catIn, catOut>>

NoBody == [f \in {} |-> Null]
NoText == [fenced |-> FALSE, body |-> "none"]

\* a free slot. The locals: id, user, body (the request), doc and modified (the
\* Recipe document read and the paths assigned since), saved (the user's
\* savedRecipes as read), aiText and candidates (what the AI client
\* returned); the response: status, msg, raw, ids (the
\* recipes a listing returns). History:
\* writes and aiCalls count the request's store writes and AI calls, before is
\* the store when it was accepted, alone that no other request was in flight
\* since, afterDel that its id had been deleted before it was accepted, row
\* that it follows a successful saveRecipe of the same pair, itself alone, with
\* nothing in between, overlap that a saveRecipe of the same pair was in flight with it.
IdleProc ==
  [op |-> "idle", pc |-> "idle", id |-> 0, user |-> "none", body |-> NoBody,
   doc |-> BlankDoc, modified |-> {}, saved |-> <<>>, aiText |-> NoText,
   candidates |-> <<>>,
   status |-> 0, msg |-> "", raw |-> NoText, ids |-> {},
   writes |-> 0, aiCalls |-> 0, before |-> <<>>, alone |-> FALSE,
   afterDel |-> FALSE, row |-> FALSE, overlap |-> FALSE]

\* the server starts with no request in flight, the credential set or not, and
\* the database in one of `stores`
InitWith(n, stores) ==
  /\ apiKey \in BOOLEAN
  /\ recipes \in stores
  /\ nextId = Cardinality(DOMAIN recipes)
  /\ users = [u \in Users |-> <<>>]
  /\ procs = [p \in Procs |-> IdleProc]
  /\ budget = n
  /\ deleted = {}
  /\ last = IdleProc
  /\ catIn = Null
  /\ catOut = Null

EmptyStore == [i \in {} |-> BlankDoc]

Init == InitWith(MaxRequests, {EmptyStore})

InFlight(p) == procs[p].pc # "idle"

\* the store's view of a document's existence
Exists(id) == id \in DOMAIN recipes

\* the ids a request may name: those inserted so far (deleted or not) and one
\* id never inserted, which stands for every such id
Targets == 1..(nextId + 1)

--------------------------------------------------------------------------
(* Requests: acceptance and response *)

SamePair(r, q) == r.op = "save" /\ q.op = "save" /\ r.user = q.user /\ r.id = q.id

\* the request a free slot p accepts, with its history
Accept(p, op, id, user, body) ==
  LET r == [IdleProc EXCEPT !.op = op, !.id = id, !.user = user, !.body = body]
  IN [r EXCEPT
        !.before = <<recipes, users>>,
        !.alone = \A q \in Procs \ {p} : ~InFlight(q),
        !.afterDel = (id \in deleted),
        !.row = /\ last.op = "save" /\ last.status = 200 /\ last.alone
                /\ SamePair(last, r)
                /\ \A q \in Procs \ {p} : ~InFlight(q),
        !.overlap = \E q \in Procs \ {p} : InFlight(q) /\ SamePair(procs[q], r)]

CanAccept(p) == ~InFlight(p) /\ budget > 0

\* res.status(code).json({message | error: msg}) and return
Respond(r, code, msg) == [r EXCEPT !.pc = "done", !.status = code, !.msg = msg]

\* the slots when p's request becomes r: a request that has responded frees its
\* slot and is kept in `last` until the next step
Slots(p, r) == [procs EXCEPT ![p] = IF r.pc = "done" THEN IdleProc ELSE r]

\* p's first step: the request r it accepted, advanced to its first await
Begin(p, r) ==
  /\ procs' = [q \in Procs |->
                 IF q = p THEN Slots(p, r)[p]
                 ELSE IF ~InFlight(q) THEN procs[q]
                 ELSE [procs[q] EXCEPT
                         !.alone = FALSE, !.row = FALSE,
                         !.overlap = @ \/ SamePair(procs[q], r)]]
  /\ budget' = budget - 1
  /\ last' = IF r.pc = "done" THEN r ELSE IdleProc

\* a later step of p: its request becomes r
Step(p, r) ==
  /\ procs' = Slots(p, r)
  /\ budget' = budget
  /\ last' = IF r.pc = "done" THEN r ELSE IdleProc

--------------------------------------------------------------------------
(* getAllRecipes, getRecipeById, getSavedRecipes *)

getAllRecipes(p) ==
  /\ CanAccept(p)
  /\ Begin(p, [Respond(Accept(p, "list", 0, "none", NoBody), 200,
                       "Here are the recipes") EXCEPT !.ids = DOMAIN recipes])
  /\ UNCHANGED <<apiKey, recipes, users, nextId, deleted, catIn, catOut>>

getRecipeById(p, id) ==
  /\ CanAccept(p)
  /\ LET r == Accept(p, "get", id, "none", NoBody)
     IN IF ~Exists(id)
          THEN Begin(p, Respond(r, 404, "Recipe not found"))
          ELSE Begin(p, Respond(r, 200, "Here is the recipe"))
  /\ UNCHANGED <<apiKey, recipes, users, nextId, deleted, catIn, catOut>>

getSavedRecipes(p, user) ==
  /\ CanAccept(p)
  /\ Begin(p, [Respond(Accept(p, "saved", 0, user, NoBody), 200,
                       "Here are your saved recipes")
                 EXCEPT !.ids = {i \in DOMAIN recipes :
                                   Contains(recipes[i].savedBy, user)}])
  /\ UNCHANGED <<apiKey, recipes, users, nextId, deleted, catIn, catOut>>

--------------------------------------------------------------------------
(* saveRecipe *)

\* after the user side: `if (!recipe.savedBy.includes(userId))` on the recipe
\* document read at the start of the request, then push and save, or respond
SaveCheckRecipe(r) ==
  IF ~Contains(r.doc.savedBy, r.user)
    THEN [r EXCEPT !.doc.savedBy = Append(@, r.user), !.pc = "recipeSave"]
    ELSE Respond(r, 200, "Recipe saved successfully")

\* `if (!user.savedRecipes.includes(recipeId))` on the user document just read
SaveCheckUser(r) ==
  IF ~Contains(r.saved, r.id)
    THEN [r EXCEPT !.saved = Append(@, r.id), !.pc = "userSave"]
    ELSE SaveCheckRecipe(r)

\* await Recipe.findById(recipeId)
saveFindRecipe(p, id, user) ==
  /\ CanAccept(p)
  /\ LET r == Accept(p, "save", id, user, NoBody)
     IN IF ~Exists(id)
          THEN Begin(p, Respond(r, 404, "Recipe not found"))
          ELSE Begin(p, [r EXCEPT !.doc = recipes[id], !.pc = "findUser"])
  /\ UNCHANGED <<apiKey, recipes, users, nextId, deleted, catIn, catOut>>

\* await User.findById(userId), and the membership test on what it returned
saveFindUser(p) ==
  /\ procs[p].op = "save" /\ procs[p].pc = "findUser"
  /\ Step(p, SaveCheckUser([procs[p] EXCEPT !.saved = users[procs[p].user]]))
  /\ UNCHANGED <<apiKey, recipes, users, nextId, deleted, catIn, catOut>>

\* await user.save(): the array's push is sent as a $push of the new element,
\* applied to the array as stored; ok = FALSE is a failed store write
saveUserSave(p, ok) ==
  /\ procs[p].op = "save" /\ procs[p].pc = "userSave"
  /\ LET r == procs[p]
     IN IF ok
          THEN /\ users' = [users EXCEPT ![r.user] = Append(@, r.id)]
               /\ Step(p, SaveCheckRecipe([r EXCEPT !.writes = @ + 1]))
          ELSE /\ users' = users
               /\ Step(p, Respond(r, 500, "Failed to save recipe"))
  /\ UNCHANGED <<apiKey, recipes, nextId, deleted, catIn, catOut>>

\* await recipe.save(): a $push on the stored document, which fails when the
\* document is no longer in the collection
saveRecipeSave(p, ok) ==
  /\ procs[p].op = "save" /\ procs[p].pc = "recipeSave"
  /\ LET r == procs[p]
     IN IF ok /\ Exists(r.id)
          THEN /\ recipes' = [recipes EXCEPT ![r.id].savedBy = Append(@, r.user)]
               /\ Step(p, Respond([r EXCEPT !.writes = @ + 1], 200,
                                  "Recipe saved successfully"))
          ELSE /\ recipes' = recipes
               /\ Step(p, Respond(r, 500, "Failed to save recipe"))
  /\ UNCHANGED <<apiKey, users, nextId, deleted, catIn, catOut>>

--------------------------------------------------------------------------
(* deleteRecipe *)

\* await Recipe.findById(id)
deleteFind(p, id) ==
  /\ CanAccept(p)
  /\ LET r == Accept(p, "delete", id, "none", NoBody)
     IN IF ~Exists(id)
          THEN Begin(p, Respond(r, 404, "Recipe not found"))
          ELSE Begin(p, [r EXCEPT !.pc = "delete"])
  /\ UNCHANGED <<apiKey, recipes, users, nextId, deleted, catIn, catOut>>

\* a variant that answers without having removed the document
deleteRemoveKeeps(p, ok) ==
  /\ procs[p].op = "delete" /\ procs[p].pc = "delete"
  /\ recipes' = recipes
  /\ deleted' = IF ok THEN deleted \cup {procs[p].id} ELSE deleted
  /\ IF ok
       THEN Step(p, Respond(procs[p], 200, "Recipe deleted successfully"))
       ELSE Step(p, Respond(procs[p], 500, "Failed to delete recipe"))
  /\ UNCHANGED <<apiKey, users, nextId, catIn, catOut>>

\* await Recipe.findByIdAndDelete(id): removes the document if it is there
deleteRemove(p, ok) ==
  /\ procs[p].op = "delete" /\ procs[p].pc = "delete"
  /\ LET r == procs[p]
     IN IF ok
          THEN /\ recipes' = [i \in DOMAIN recipes \ {r.id} |-> recipes[i]]
               /\ deleted' = deleted \cup {r.id}
               /\ Step(p, Respond([r EXCEPT !.writes =
                                     IF Exists(r.id) THEN @ + 1 ELSE @],
                                  200, "Recipe deleted successfully"))
          ELSE /\ recipes' = recipes
               /\ deleted' = deleted
               /\ Step(p, Respond(r, 500, "Failed to delete recipe"))
  /\ UNCHANGED <<apiKey, users, nextId, catIn, catOut>>

--------------------------------------------------------------------------
(* updateRecipe *)

\* a destructured field of req.body: undefined when the payload omits it
PayloadValue(body, f) == IF f \in DOMAIN body THEN body[f] ELSE Null

\* the value `if (x) recipe.f = ...` assigns: the payload's, and for category
\* `Array.isArray(category) ? category : [category]`
Assigned(body, f) ==
  LET v == PayloadValue(body, f)
  IN IF f = "category" /\ v.kind # "array" THEN Arr(<<v.s>>) ELSE v

\* the nine `if (field) recipe.field = field` statements
AssignFields(doc, body) ==
  [f \in DOMAIN doc |->
     IF f \in FieldSet /\ Truthy(PayloadValue(body, f))
       THEN Assigned(body, f) ELSE doc[f]]

ModifiedPaths(old, new) == {f \in FieldSet : old[f] # new[f]}

\* await Recipe.findById(id), and the assignments to the document it returned
updateFind(p, id, body) ==
  /\ CanAccept(p)
  /\ LET r == Accept(p, "update", id, "none", body)
     IN IF ~Exists(id)
          THEN Begin(p, Respond(r, 404, "Recipe not found"))
          ELSE Begin(p, [r EXCEPT
                           !.doc = AssignFields(recipes[id], body),
                           !.modified = ModifiedPaths(recipes[id],
                                          AssignFields(recipes[id], body)),
                           !.pc = "save"])
  /\ UNCHANGED <<apiKey, recipes, users, nextId, deleted, catIn, catOut>>

\* document.save() of a document read from the store: validation, then a $set
\* of the modified paths on the stored document, which fails when it is gone
SaveModified(r, ok) ==
  IF ok /\ Validates(r.doc) /\ Exists(r.id)
    THEN [recipes EXCEPT ![r.id] =
            [f \in DOMAIN @ |-> IF f \in r.modified THEN r.doc[f] ELSE @[f]]]
    ELSE recipes

Saved(r, ok) == ok /\ Validates(r.doc) /\ Exists(r.id)

Wrote(r) == [r EXCEPT !.writes = IF r.modified # {} THEN @ + 1 ELSE @]

\* await recipe.save()
updateSave(p, ok) ==
  /\ procs[p].op = "update" /\ procs[p].pc = "save"
  /\ LET r == procs[p]
     IN /\ recipes' = SaveModified(r, ok)
        /\ IF Saved(r, ok)
             THEN Step(p, Respond(Wrote(r), 200, "Recipe updated successfully"))
             ELSE Step(p, Respond(r, 500, "Failed to update recipe"))
  /\ UNCHANGED <<apiKey, users, nextId, deleted, catIn, catOut>>

--------------------------------------------------------------------------
(* createRecipe *)

\* aiText.replace(/```json|```/g, "").trim(): the text without its fences
CleanText(text) == [text EXCEPT !.fenced = FALSE]

\* The AI texts of the model, by what their body is once the fences are off:
\*   "valid"          the JSON asked for, ingredients as strings
\*   "structured"     the same with {item, amount, unit} ingredients and no
\*                    nutritionalInfo
\*   "noIngredients"  JSON without an ingredients array
\*   "noTitle"        JSON without a title
\*   "garbage"        text jsonrepair or JSON.parse throws on
AiBodies == {"valid", "structured", "noIngredients", "noTitle", "garbage"}
AiTexts == [fenced : BOOLEAN, body : AiBodies]

\* whether jsonrepair(cleanText) and JSON.parse of its result both return; a
\* text that keeps its fences is not JSON
Parses(text) == ~text.fenced /\ text.body # "garbage"

Rice == <<"r","i","c","e">>
PlainIngredient(cs) == [plain |-> TRUE, amount |-> <<>>, unit |-> <<>>, item |-> cs]
StructuredIngredient(amount, unit, item) ==
  [plain |-> FALSE, amount |-> amount, unit |-> unit, item |-> item]

\* JSON.parse of a text that parses
ParsedRecipe(text) ==
  [title |-> IF text.body = "noTitle" THEN Null ELSE Str(<<"R">>),
   description |-> Arr(<<<<"d">>>>),
   hasIngredients |-> text.body # "noIngredients",
   ingredients |->
     IF text.body = "structured"
       THEN <<StructuredIngredient(<<"2">>, <<>>, Rice), PlainIngredient(Rice)>>
       ELSE <<PlainIngredient(<<"2"," ">> \o Rice)>>,
   instructions |-> Arr(<<<<"c">>>>),
   hasNutrition |-> text.body # "structured",
   calories |-> Str(<<"2","0","0","k","c","a","l">>),
   protein |-> Num(<<"5">>),
   fat |-> Num(<<"2",".","3","4","6">>),
   carbs |-> Null]

\* typeof i === "string" ? i : `${i.amount || ""} ${i.unit || ""} ${i.item}`
FormatIngredient(i) ==
  IF i.plain THEN i.item ELSE i.amount \o <<" ">> \o i.unit \o <<" ">> \o i.item

\* parsedRecipe.nutritionalInfo?.field: undefined without a nutritionalInfo
Nutrition(parsed, v) == IF parsed.hasNutrition THEN v ELSE Null

\* new Recipe({...}) from the parsed AI output and the request; a category
\* string is cast to the schema's [String]
BuildRecipe(parsed, body) ==
  NewRecipe(
    [title |-> parsed.title,
     description |-> parsed.description,
     ingredients |-> Arr([k \in DOMAIN parsed.ingredients |->
                            FormatIngredient(parsed.ingredients[k])]),
     instructions |-> parsed.instructions,
     portionSize |-> PayloadValue(body, "portionSize"),
     category |-> CastStringArray(normalizeCategory(PayloadValue(body, "category"))),
     difficulty |-> PayloadValue(body, "difficulty"),
     nutritionalInfo |->
       Obj(<<parseNutrition(Nutrition(parsed, parsed.calories)),
             parseNutrition(Nutrition(parsed, parsed.protein)),
             parseNutrition(Nutrition(parsed, parsed.fat)),
             parseNutrition(Nutrition(parsed, parsed.carbs))>>)])

\* whether the code from the parse to `new Recipe` throws: ingredients.map on a
\* parsed object without ingredients, toLowerCase on a category with no such
\* method
BuildThrows(parsed, body) ==
  \/ ~parsed.hasIngredients
  \/ normalizeCategory(PayloadValue(body, "category")) = Throw

\* the credential check, the prompt (ingredients.join throws unless ingredients
\* is an array) and the call of model.generateContent
createStart(p, body) ==
  /\ CanAccept(p)
  /\ LET r == Accept(p, "create", 0, "none", body)
     IN IF ~apiKey
          THEN Begin(p, Respond(r, 500, "GOOGLE_API_KEY not found"))
        ELSE IF PayloadValue(body, "ingredients").kind # "array"
          THEN Begin(p, Respond(r, 500, "Failed to generate recipe"))
        ELSE Begin(p, [r EXCEPT !.aiCalls = @ + 1, !.pc = "ai"])
  /\ UNCHANGED <<apiKey, recipes, users, nextId, deleted, catIn, catOut>>

\* the call returned `text`: clean, repair, parse, build the document
CreateParsed(r, text) ==
  IF ~Parses(CleanText(text))
    THEN [Respond([r EXCEPT !.aiText = text], 500, "AI response JSON invalid")
            EXCEPT !.raw = text]
  ELSE IF BuildThrows(ParsedRecipe(CleanText(text)), r.body)
    THEN Respond([r EXCEPT !.aiText = text], 500, "Failed to generate recipe")
  ELSE [r EXCEPT !.aiText = text,
                 !.doc = BuildRecipe(ParsedRecipe(CleanText(text)), r.body),
                 !.pc = "save"]

\* await model.generateContent(prompt) returns a text, or throws (failed)
createAi(p, failed, text) ==
  /\ procs[p].op = "create" /\ procs[p].pc = "ai"
  /\ IF failed
       THEN Step(p, Respond(procs[p], 500, "Failed to generate recipe"))
       ELSE Step(p, CreateParsed(procs[p], text))
  /\ UNCHANGED <<apiKey, recipes, users, nextId, deleted, catIn, catOut>>

\* a variant that inserts the document before it validates it
createSaveUnvalidated(p, ok) ==
  /\ procs[p].op = "create" /\ procs[p].pc = "save"
  /\ LET r == procs[p]
     IN /\ recipes' = IF ok THEN (nextId + 1 :> r.doc) @@ recipes ELSE recipes
        /\ nextId' = IF ok THEN nextId + 1 ELSE nextId
        /\ IF ok /\ Validates(r.doc)
             THEN Step(p, Respond([r EXCEPT !.id = nextId + 1, !.writes = @ + 1],
                                  201, "Recipe created successfully"))
             ELSE Step(p, Respond(r, 500, "Failed to generate recipe"))
  /\ UNCHANGED <<apiKey, users, deleted, catIn, catOut>>

\* await recipe.save() of the new document: validation, then the insert
createSave(p, ok) ==
  /\ procs[p].op = "create" /\ procs[p].pc = "save"
  /\ LET r == procs[p]
     IN IF ok /\ Validates(r.doc)
          THEN /\ recipes' = (nextId + 1 :> r.doc) @@ recipes
               /\ nextId' = nextId + 1
               /\ Step(p, Respond([r EXCEPT !.id = nextId + 1, !.writes = @ + 1],
                                  201, "Recipe created successfully"))
          ELSE /\ recipes' = recipes
               /\ nextId' = nextId
               /\ Step(p, Respond(r, 500, "Failed to generate recipe"))
  /\ UNCHANGED <<apiKey, users, deleted, catIn, catOut>>

--------------------------------------------------------------------------
(* generateRecipeImage *)

RECURSIVE Flatten(_)
\* the parts of a response's candidates, in the order the loops visit them
Flatten(candidates) ==
  IF candidates = <<>> THEN <<>>
  ELSE Head(candidates) \o Flatten(Tail(candidates))

RECURSIVE ScanParts(_, _)
\* the two nested loops: every part with inlineData assigns imageBase64
ScanParts(parts, imageBase64) ==
  IF parts = <<>> THEN imageBase64
  ELSE ScanParts(Tail(parts),
                 IF Head(parts).inline THEN Str(Head(parts).data) ELSE imageBase64)

ScanResponse(candidates) == ScanParts(Flatten(candidates), Null)

DataUriPrefix == <<"d","a","t","a",":","i","m","a","g","e","/","p","n","g",
                   ";","b","a","s","e","6","4",",">>
\* `data:image/png;base64,${imageBase64}`
DataUri(imageBase64) == Str(DataUriPrefix \o imageBase64.s)

\* a variant that looks the recipe up before it checks the credential
imageStartLookupFirst(p, id) ==
  /\ CanAccept(p)
  /\ LET r == Accept(p, "image", id, "none", NoBody)
     IN IF ~Exists(id)
          THEN Begin(p, Respond(r, 404, "Recipe not found"))
        ELSE IF ~apiKey
          THEN Begin(p, Respond(r, 500, "GOOGLE_API_KEY not found"))
        ELSE Begin(p, [r EXCEPT !.doc = recipes[id], !.aiCalls = @ + 1,
                                !.pc = "ai"])
  /\ UNCHANGED <<apiKey, recipes, users, nextId, deleted, catIn, catOut>>

\* the credential check, await Recipe.findById(id), and the call of
\* model.generateContent
imageStart(p, id) ==
  /\ CanAccept(p)
  /\ LET r == Accept(p, "image", id, "none", NoBody)
     IN IF ~apiKey
          THEN Begin(p, Respond(r, 500, "GOOGLE_API_KEY not found"))
        ELSE IF ~Exists(id)
          THEN Begin(p, Respond(r, 404, "Recipe not found"))
        ELSE Begin(p, [r EXCEPT !.doc = recipes[id], !.aiCalls = @ + 1,
                                !.pc = "ai"])
  /\ UNCHANGED <<apiKey, recipes, users, nextId, deleted, catIn, catOut>>

\* the response is scanned for inline data; recipe.image is assigned
ImageScanned(r, candidates) ==
  IF ~Truthy(ScanResponse(candidates))
    THEN Respond([r EXCEPT !.candidates = candidates], 500,
                 "No image returned by AI")
    ELSE [r EXCEPT !.candidates = candidates,
                   !.doc.image = DataUri(ScanResponse(candidates)),
                   !.modified = IF r.doc.image = DataUri(ScanResponse(candidates))
                                  THEN {} ELSE {"image"},
                   !.pc = "save"]

\* await model.generateContent(prompt) returns a response, or throws (failed)
imageAi(p, failed, candidates) ==
  /\ procs[p].op = "image" /\ procs[p].pc = "ai"
  /\ IF failed
       THEN Step(p, Respond(procs[p], 500, "Failed to generate recipe image"))
       ELSE Step(p, ImageScanned(procs[p], candidates))
  /\ UNCHANGED <<apiKey, recipes, users, nextId, deleted, catIn, catOut>>

\* await recipe.save()
imageSave(p, ok) ==
  /\ procs[p].op = "image" /\ procs[p].pc = "save"
  /\ LET r == procs[p]
     IN /\ recipes' = SaveModified(r, ok)
        /\ IF Saved(r, ok)
             THEN Step(p, Respond(Wrote(r), 200, "Image generated successfully"))
             ELSE Step(p, Respond(r, 500, "Failed to generate recipe image"))
  /\ UNCHANGED <<apiKey, users, nextId, deleted, catIn, catOut>>

--------------------------------------------------------------------------
(* normalizeCategory, applied once to an argument of its own *)

Normalize(cat) ==
  /\ catOut = Null
  /\ catIn' = cat
  /\ catOut' = normalizeCategory(cat)
  /\ UNCHANGED <<apiKey, recipes, users, nextId, procs, budget, deleted, last>>

--------------------------------------------------------------------------
(* The inputs of the model *)

Keto == <<"k","e","t","o">>
Four == <<"4">>

\* request payloads of createRecipe: the spec's scenario, a category that
\* needs cleaning, no category, a category array, no ingredients, a difficulty
\* outside the enum
GoodCreate ==
  [ingredients |-> Arr(<<Rice>>), portionSize |-> Str(Four),
   category |-> Str(Veg), difficulty |-> Str(Easy)]
CreateBodies ==
  { GoodCreate,
    [GoodCreate EXCEPT !.category = Str(<<"N","o","n","-","V","e","g","!">>)],
    [f \in {"ingredients", "portionSize", "difficulty"} |-> GoodCreate[f]],
    [GoodCreate EXCEPT !.category = Arr(<<Vegan>>)],
    [f \in {"portionSize", "category", "difficulty"} |-> GoodCreate[f]],
    [GoodCreate EXCEPT !.difficulty = Str(<<"x">>)] }

\* the values a payload of updateRecipe may give a field
FieldValues(f) ==
  CASE f = "title" -> {Str(<<"T">>), Str(<<>>)}
    [] f = "description" -> {Arr(<<<<"e">>>>)}
    [] f = "ingredients" -> {Arr(<<<<"s","a","l","t">>>>)}
    [] f = "instructions" -> {Arr(<<<<"b">>>>)}
    [] f = "portionSize" -> {Str(<<"2">>)}
    [] f = "category" -> {Str(Keto), Str(Vegan), Arr(<<Vegan, Spicy>>)}
    [] f = "difficulty" -> {Str(Hard), Str(<<"x">>)}
    [] f = "nutritionalInfo" -> {Obj(<<100, 200, 300, 400>>)}
    [] f = "image" -> {Str(<<"u">>), Str(<<>>)}

\* a payload that gives every field
FullUpdate == [f \in FieldSet |-> CHOOSE v \in FieldValues(f) : Truthy(v)]

\* request payloads of updateRecipe: the empty one, each field alone with each
\* of its values, and every field at once
UpdateBodies ==
  {NoBody, FullUpdate}
    \cup {[g \in {f} |-> v] : <<f, v>> \in
            UNION {{<<f, v>> : v \in FieldValues(f)} : f \in FieldSet}}

TextPart == [inline |-> FALSE, data |-> <<>>]
InlinePart(cs) == [inline |-> TRUE, data |-> cs]
ImgA == <<"A","A">>
ImgB == <<"B","B">>

\* responses of the image model: no candidate, text only, one inline payload,
\* two in one candidate, two across candidates with text around them
ImageResponses ==
  { <<>>,
    << <<TextPart>> >>,
    << <<InlinePart(ImgA)>> >>,
    << <<InlinePart(ImgA), InlinePart(ImgB)>> >>,
    << <<TextPart, InlinePart(ImgB)>>, <<InlinePart(ImgA), TextPart>> >> }

Alphabet == {"V", "v", "e", "g", "-", "1"}
RECURSIVE StringsUpTo(_)
StringsUpTo(k) ==
  IF k = 0 THEN {<<>>}
  ELSE StringsUpTo(k - 1) \cup
       {Append(cs, c) : cs \in {t \in StringsUpTo(k - 1) : Len(t) = k - 1},
                        c \in Alphabet}

\* category strings: every string over Alphabet up to MaxLen, the spec's
\* examples, and the table's keys in several spellings
CategoryStrings ==
  StringsUpTo(MaxLen) \cup
  { <<"N","o","n","-","V","e","g","!">>, <<"V","E","G","A","N">>, Keto,
    Veg, Vegetarian, NonVeg, NonVegetarianKey, NonVegetarian, Vegan, Spicy, Other,
    <<"S","p","i","c","y"," ">>, <<"n","o","n","_","v","e","g">>,
    <<"v","e","g","4">>, <<"V","e","g","e","t","a","r","i","a","n">>,
    <<"v","e","g","a","n","s">>, <<" ">> }

CategoryValues == {Str(cs) : cs \in CategoryStrings} \cup {Null, Arr(<<Vegan>>)}

--------------------------------------------------------------------------
(* Specifications *)

\* the steps of each handler, its inputs drawn from the given sets
ReadSteps(p) ==
  \/ getAllRecipes(p)
  \/ \E id \in Targets : getRecipeById(p, id)
  \/ \E u \in Users : getSavedRecipes(p, u)

CreateSteps(p, createBodies, aiTexts) ==
  \/ \E body \in createBodies : createStart(p, body)
  \/ \E failed \in BOOLEAN, text \in aiTexts : createAi(p, failed, text)
  \/ \E ok \in BOOLEAN : createSave(p, ok)

UpdateSteps(p, updateBodies) ==
  \/ \E id \in Targets, body \in updateBodies : updateFind(p, id, body)
  \/ \E ok \in BOOLEAN : updateSave(p, ok)

DeleteSteps(p) ==
  \/ \E id \in Targets : deleteFind(p, id)
  \/ \E ok \in BOOLEAN : deleteRemove(p, ok)

SaveSteps(p) ==
  \/ \E id \in Targets, u \in Users : saveFindRecipe(p, id, u)
  \/ saveFindUser(p)
  \/ \E ok \in BOOLEAN : saveUserSave(p, ok)
  \/ \E ok \in BOOLEAN : saveRecipeSave(p, ok)

ImageSteps(p, imageResponses) ==
  \/ \E id \in Targets : imageStart(p, id)
  \/ \E failed \in BOOLEAN, candidates \in imageResponses :
       imageAi(p, failed, candidates)
  \/ \E ok \in BOOLEAN : imageSave(p, ok)

\* the server: every handler, every input of the model
Next ==
  \E p \in Procs :
    \/ ReadSteps(p)
    \/ CreateSteps(p, CreateBodies, AiTexts)
    \/ UpdateSteps(p, UpdateBodies)
    \/ DeleteSteps(p)
    \/ SaveSteps(p)
    \/ ImageSteps(p, ImageResponses)

Spec == Init /\ [][Next]_vars

\* a database that already holds a recipe, as createRecipe left it
StoredRecipe == BuildRecipe(ParsedRecipe([fenced |-> FALSE, body |-> "valid"]), GoodCreate)
OneRecipe == [i \in {1} |-> StoredRecipe]

\* the save bookkeeping alone: saveRecipe, deleteRecipe and getSavedRecipes
\* over a database that holds a recipe
InitSaves == InitWith(MaxSaves, {OneRecipe})
NextSaves ==
  \E p \in Procs :
    \/ \E u \in Users : getSavedRecipes(p, u)
    \/ DeleteSteps(p)
    \/ SaveSteps(p)

SpecSaves == InitSaves /\ [][NextSaves]_vars

\* the two handlers that call the AI Generation Client, with deleteRecipe and
\* getRecipeById beside them, over a database that is empty or holds a recipe
InitAI == InitWith(MaxAiRequests, {EmptyStore, OneRecipe})
NextAI ==
  \E p \in Procs :
    \/ \E id \in Targets : getRecipeById(p, id)
    \/ CreateSteps(p, CreateBodies, AiTexts)
    \/ DeleteSteps(p)
    \/ ImageSteps(p, ImageResponses)

SpecAI == InitAI /\ [][NextAI]_vars

\* every handler, with one input of each kind, over a database that is empty
\* or holds a recipe
ValidText == [fenced |-> TRUE, body |-> "valid"]
InitLifecycle == InitWith(MaxRequests, {EmptyStore, OneRecipe})
NextLifecycle ==
  \E p \in Procs :
    \/ ReadSteps(p)
    \/ CreateSteps(p, {GoodCreate}, {ValidText})
    \/ UpdateSteps(p, {NoBody})
    \/ DeleteSteps(p)
    \/ SaveSteps(p)
    \/ ImageSteps(p, {<< <<InlinePart(ImgA)>> >>})

SpecLifecycle == InitLifecycle /\ [][NextLifecycle]_vars

\* normalizeCategory alone, over its arguments
NextNormalize == \E cat \in CategoryValues : Normalize(cat)

SpecNormalize == Init /\ [][NextNormalize]_vars

--------------------------------------------------------------------------
(* Properties *)

Tags == {Vegetarian, NonVegetarian, Vegan, Spicy, Other}

SaveInProgress == \E p \in Procs : procs[p].op = "save"

\* the store as the request last answered found it
RecipesBefore == last.before[1]
UsersBefore == last.before[2]

\* C1: whenever no saveRecipe is in progress, a recipe id is in a user's
\* savedRecipes exactly when that recipe is in the store and the user is in
\* its savedBy.
C1_SaveConsistency ==
  ~SaveInProgress =>
    \A u \in Users, id \in 1..nextId :
      Contains(users[u], id) <=> (Exists(id) /\ Contains(recipes[id].savedBy, u))

\* C2: a saveRecipe that succeeds right after a successful saveRecipe of the
\* same user and recipe, each having run with no other request in flight,
\* writes nothing, and leaves the recipe id once in the user's savedRecipes
\* and the user once in the recipe's savedBy.
C2_SaveIdempotent ==
  (last.op = "save" /\ last.status = 200 /\ last.row) =>
    /\ last.writes = 0
    /\ <<recipes, users>> = last.before
    /\ Count(users[last.user], last.id) = 1
    /\ Exists(last.id) /\ Count(recipes[last.id].savedBy, last.user) = 1

\* C3: without the credential, createRecipe and generateRecipeImage answer
\* 500 "GOOGLE_API_KEY not found" for every payload and every id, call the AI
\* client zero times and leave both collections as they were; neither is ever
\* left waiting on the AI client.
C3_NoKeyShortCircuit ==
  ~apiKey =>
    /\ \A p \in Procs : procs[p].op \notin {"create", "image"}
    /\ last.op \in {"create", "image"} =>
         /\ last.status = 500 /\ last.msg = "GOOGLE_API_KEY not found"
         /\ last.aiCalls = 0 /\ last.writes = 0
         /\ <<recipes, users>> = last.before

C3_Witness ==
  /\ ~apiKey /\ last.op = "image" /\ last.id \in DOMAIN recipes
  /\ last.status = 500

\* the requests that look a recipe up by the id of the request
ById == {"get", "update", "delete", "save", "image"}

\* what C4 says of deleteRecipe itself: an id not in the store gives 404 and
\* changes nothing; a successful delete removes that recipe and only that one
DeleteEffect ==
  last.op = "delete" =>
    /\ last.id \notin DOMAIN RecipesBefore =>
         last.status = 404 /\ <<recipes, users>> = last.before
    /\ last.status = 200 =>
         /\ ~Exists(last.id)
         /\ last.alone =>
              /\ users = UsersBefore
              /\ recipes = [i \in DOMAIN RecipesBefore \ {last.id} |->
                              RecipesBefore[i]]

Patched(old, body, f) ==
  IF f \in DOMAIN body THEN Assigned(body, f) ELSE old[f]

\* C5: after a successful updateRecipe (no other request in flight), each of
\* the nine fields holds the payload's value if the payload has the field,
\* whatever the value, and its old value otherwise; the other paths are as
\* they were.
C5_PatchSemantics ==
  (last.op = "update" /\ last.status = 200 /\ last.alone) =>
    \A f \in DOMAIN recipes[last.id] :
      recipes[last.id][f] =
        IF f \in FieldSet THEN Patched(RecipesBefore[last.id], last.body, f)
        ELSE RecipesBefore[last.id][f]

Letters == {UpperChars[i] : i \in DOMAIN UpperChars}
             \cup {LowerChars[i] : i \in DOMAIN LowerChars}

\* the category C6 states: the letters of the input, lower-cased, looked up
ClaimedTag(cs) ==
  LET letters == SelectSeq(cs, LAMBDA c : c \in Letters)
      key == [i \in DOMAIN letters |-> ToLowerChar(letters[i])]
  IN CASE key = Veg \/ key = Vegetarian -> Vegetarian
       [] key = NonVeg \/ key = NonVegetarianKey -> NonVegetarian
       [] key = Vegan -> Vegan
       [] key = Spicy -> Spicy
       [] OTHER -> Other

C7_FailedCreate ==
  /\ \A p \in Procs : procs[p].op = "create" => procs[p].aiCalls <= 1
  /\ last.op = "create" =>
       /\ last.aiCalls <= 1
       /\ last.status # 201 =>
            /\ last.status = 500 /\ last.writes = 0
            /\ last.alone => recipes = RecipesBefore
       /\ (last.aiText # NoText /\ ~Parses(CleanText(last.aiText))) =>
            /\ last.status = 500 /\ last.msg = "AI response JSON invalid"
            /\ last.raw = last.aiText

C7_Witness ==
  /\ last.op = "create" /\ last.alone /\ last.aiText.fenced
  /\ last.msg = "AI response JSON invalid" /\ last.raw = last.aiText
  /\ DOMAIN recipes # {}

RECURSIVE FirstInline(_)
\* the first part with inline data, in the order of the scan
FirstInline(parts) ==
  IF parts = <<>> THEN Null
  ELSE IF Head(parts).inline THEN Str(Head(parts).data)
  ELSE FirstInline(Tail(parts))

HasInline(candidates) ==
  \E i \in DOMAIN Flatten(candidates) : Flatten(candidates)[i].inline

\* C8: a generateRecipeImage that succeeds (no other request in flight) has
\* stored the data URI of the first inline payload of the response; a response
\* without inline payload gives 500 "No image returned by AI" and leaves the
\* recipe as it was.
C8_FirstInlineImage ==
  (last.op = "image" /\ last.alone) =>
    /\ last.status = 200 =>
         recipes[last.id].image = DataUri(FirstInline(Flatten(last.candidates)))
    /\ (last.aiCalls = 1 /\ last.msg # "Failed to generate recipe image"
          /\ ~HasInline(last.candidates)) =>
         /\ last.status = 500 /\ last.msg = "No image returned by AI"
         /\ recipes = RecipesBefore

\* C9: every recipe in the store has a category that is an array of tags
\* among the five.
C9_StoredCategory ==
  \A id \in DOMAIN recipes :
    /\ recipes[id].category.kind = "array"
    /\ \A i \in DOMAIN recipes[id].category.a : recipes[id].category.a[i] \in Tags

\* C10: when a successful saveRecipe that overlapped another for the same
\* user and recipe is answered and none for that pair is still in flight, the
\* recipe id is once in the user's savedRecipes and the user once in the
\* recipe's savedBy.
C10_ConcurrentSaves ==
  (/\ last.op = "save" /\ last.status = 200 /\ last.overlap
   /\ \A p \in Procs : ~SamePair(procs[p], last)) =>
    /\ Count(users[last.user], last.id) = 1
    /\ Exists(last.id) => Count(recipes[last.id].savedBy, last.user) = 1

====
